---------------------------- MODULE Spec2Model ----------------------------
(***************************************************************************)
(* Model of the chart components of ECS272-Fall2024 (gyazdani):            *)
(*   - the bar chart        (BarChartOverview, two variants),              *)
(*   - the hexbin plot      (HexbinPlot),                                  *)
(*   - the Sankey diagrams  (SankeyPlot, ParallelCoordinatesPlot).         *)
(* Each component has its own state variables and its own specification:   *)
(*   SpecBucket  the pure bucketing functions applied to drawn inputs,     *)
(*   SpecBar     the bar chart: loader, debounced resize, render effect,   *)
(*   SpecSankey  the Sankey diagrams: loader, filter, resize, graph build, *)
(*   SpecHexbin  the hexbin plot: mount, loader, resize, timer, unmount.   *)
(***************************************************************************)
EXTENDS Integers, Sequences, FiniteSets, TLC

(***************************************************************************)
(* Bounds of the model.                                                    *)
(***************************************************************************)
MinAge == 16
MaxAge == 71
IncomeDelta == 2
MaxRows == 3      \* rows of a CSV file
MaxRenders == 2   \* render passes of the bar chart that are followed
MaxMounts == 2    \* times the hexbin plot is mounted

(***************************************************************************)
(* JavaScript numbers.  A number is either NaN or an integer value; the    *)
(* comparison operators are false as soon as one operand is NaN and        *)
(* addition propagates NaN, as in IEEE-754.                                *)
(***************************************************************************)
NaN == [nan |-> TRUE, v |-> 0]
Num(n) == [nan |-> FALSE, v |-> n]
isNaN(x) == x.nan
JsGe(x, n) == ~x.nan /\ x.v >= n
JsLe(x, n) == ~x.nan /\ x.v <= n
JsLt(x, n) == ~x.nan /\ x.v < n
JsGt(x, n) == ~x.nan /\ x.v > n
JsAdd(x, y) == IF x.nan \/ y.nan THEN NaN ELSE Num(x.v + y.v)

(***************************************************************************)
(* Categorical bucketers.                                                  *)
(***************************************************************************)
\* categorizeAge with the upper bound of every interval left out (mutation).
categorizeAgeOpen(age) ==
  IF JsGe(age, 18) /\ JsLt(age, 27) THEN "18-27"
  ELSE IF JsGe(age, 28) /\ JsLt(age, 37) THEN "28-37"
  ELSE IF JsGe(age, 38) /\ JsLt(age, 47) THEN "38-47"
  ELSE IF JsGe(age, 48) /\ JsLt(age, 57) THEN "48-57"
  ELSE IF JsGe(age, 58) /\ JsLt(age, 69) THEN "58-69"
  ELSE "Unknown"

\* categorizeAge of the current bar chart.
categorizeAge(age) ==
  IF JsGe(age, 18) /\ JsLe(age, 27) THEN "18-27"
  ELSE IF JsGe(age, 28) /\ JsLe(age, 37) THEN "28-37"
  ELSE IF JsGe(age, 38) /\ JsLe(age, 47) THEN "38-47"
  ELSE IF JsGe(age, 48) /\ JsLe(age, 57) THEN "48-57"
  ELSE IF JsGe(age, 58) /\ JsLe(age, 69) THEN "58-69"
  ELSE "Unknown"

\* categorizeAge of the Homework2 bar chart (different cutoffs).
categorizeAgeHw2(age) ==
  IF JsGe(age, 18) /\ JsLe(age, 25) THEN "18-25"
  ELSE IF JsGe(age, 26) /\ JsLe(age, 35) THEN "26-35"
  ELSE IF JsGe(age, 36) /\ JsLe(age, 45) THEN "36-45"
  ELSE IF JsGe(age, 46) /\ JsLe(age, 55) THEN "46-55"
  ELSE IF JsGe(age, 56) /\ JsLe(age, 69) THEN "56-69"
  ELSE "Unknown"

\* The intervals the labels of the two categorizeAge variants name.
ageIntervals ==
  { [min |-> 18, max |-> 27, label |-> "18-27"],
    [min |-> 28, max |-> 37, label |-> "28-37"],
    [min |-> 38, max |-> 47, label |-> "38-47"],
    [min |-> 48, max |-> 57, label |-> "48-57"],
    [min |-> 58, max |-> 69, label |-> "58-69"] }
ageIntervalsHw2 ==
  { [min |-> 18, max |-> 25, label |-> "18-25"],
    [min |-> 26, max |-> 35, label |-> "26-35"],
    [min |-> 36, max |-> 45, label |-> "36-45"],
    [min |-> 46, max |-> 55, label |-> "46-55"],
    [min |-> 56, max |-> 69, label |-> "56-69"] }

\* assignIncomeToRange with every upper bound closed (mutation).
assignIncomeToRangeClosed(income) ==
  IF JsLt(income, 20000) THEN "< 20K"
  ELSE IF JsGe(income, 20000) /\ JsLe(income, 50000) THEN "20K - 50K"
  ELSE IF JsGe(income, 50000) /\ JsLe(income, 100000) THEN "50K - 100K"
  ELSE IF JsGe(income, 100000) /\ JsLe(income, 200000) THEN "100K - 200K"
  ELSE "> 200K"

\* assignIncomeToRange of SankeyPlot.
assignIncomeToRange(income) ==
  IF JsLt(income, 20000) THEN "< 20K"
  ELSE IF JsGe(income, 20000) /\ JsLt(income, 50000) THEN "20K - 50K"
  ELSE IF JsGe(income, 50000) /\ JsLt(income, 100000) THEN "50K - 100K"
  ELSE IF JsGe(income, 100000) /\ JsLt(income, 200000) THEN "100K - 200K"
  ELSE "> 200K"

\* assignIncomeToRange of ParallelCoordinatesPlot (Homework2).
assignIncomeToRangeHw2(income) ==
  IF JsLt(income, 20000) THEN "< 20K"
  ELSE IF JsGe(income, 20000) /\ JsLt(income, 50000) THEN "20K - 50K"
  ELSE IF JsGe(income, 50000) /\ JsLt(income, 100000) THEN "50K - 100K"
  ELSE IF JsGe(income, 100000) /\ JsLt(income, 200000) THEN "100K - 200K"
  ELSE "> 200K"

\* The income intervals the labels name, in table order.
incomeIntervals ==
  { [min |-> 20000, max |-> 50000, label |-> "20K - 50K"],
    [min |-> 50000, max |-> 100000, label |-> "50K - 100K"],
    [min |-> 100000, max |-> 200000, label |-> "100K - 200K"] }


(***************************************************************************)
(* CSV fields.  d3.csv hands every field to the row function as a string,  *)
(* or as undefined when the column is missing.  Unary plus converts a      *)
(* decimal string to its number, the empty string to 0 and anything else   *)
(* (text, undefined) to NaN.                                               *)
(***************************************************************************)
Undefined == "<undefined>"
ToNumber(s) ==
  CASE s = "27" -> Num(27)
    [] s = "30" -> Num(30)
    [] s = "40" -> Num(40)
    [] s = "100" -> Num(100)
    [] s = "200" -> Num(200)
    [] s = "300" -> Num(300)
    [] s = "20" -> Num(20)
    [] s = "650" -> Num(650)
    [] s = "700" -> Num(700)
    [] s = "900" -> Num(900)
    [] s = "15000" -> Num(15000)
    [] s = "50000" -> Num(50000)
    [] s = "60000" -> Num(60000)
    [] s = "" -> Num(0)
    [] OTHER -> NaN

\* The prefix of a sequence without its last element, and the last element.
Front(q) == SubSeq(q, 1, Len(q) - 1)
Last(q) == q[Len(q)]

\* The index of the entry of an insertion-ordered map (a sequence of
\* [key, value] entries) that holds the key, 0 when there is none.
IndexOfKey(entries, key) ==
  IF \E i \in 1..Len(entries) : entries[i].key = key
  THEN CHOOSE i \in 1..Len(entries) : entries[i].key = key
  ELSE 0
MapHas(entries, key) == IndexOfKey(entries, key) # 0
MapGet(entries, key) == entries[IndexOfKey(entries, key)].value

(***************************************************************************)
(* Bar chart (BarChartOverview): loader and aggregation.                   *)
(***************************************************************************)
\* The row function of the loader: no row is rejected.
BarRow(variant, d) ==
  LET age == ToNumber(d.Age)
      ageGroup == IF variant = "hw2" THEN categorizeAgeHw2(age)
                  ELSE categorizeAge(age)
  IN [Age |-> ageGroup, Income |-> ToNumber(d.Income), RiskRating |-> d.Risk]

RECURSIVE BarLoader(_, _)
BarLoader(variant, csv) ==
  IF csv = <<>> THEN <<>>
  ELSE Append(BarLoader(variant, Front(csv)), BarRow(variant, Last(csv)))

\* d3.sum that keeps only the last addend (mutation).
RECURSIVE d3sumLast(_)
d3sumLast(v) ==
  IF v = <<>> THEN Num(0)
  ELSE LET x == Last(v).Income
       IN IF x.nan \/ x.v = 0 THEN d3sumLast(Front(v)) ELSE x

\* d3.sum(v, d => d.Income): adds the incomes that are truthy numbers, so a
\* NaN income is skipped.
RECURSIVE d3sum(_)
d3sum(v) ==
  IF v = <<>> THEN Num(0)
  ELSE LET s == d3sum(Front(v))
           x == Last(v).Income
       IN IF x.nan \/ x.v = 0 THEN s ELSE JsAdd(s, x)

\* The reducer of the rollup.
BarReduce(v) == [totalIncome |-> d3sum(v), count |-> Len(v)]

\* Grouping that starts a new group for every row (mutation).
RECURSIVE d3groupSplit(_, _)
d3groupSplit(rows, field) ==
  IF rows = <<>> THEN <<>>
  ELSE Append(d3groupSplit(Front(rows), field),
              [key |-> Last(rows)[field], value |-> <<Last(rows)>>])

\* One level of d3.rollup: the rows grouped by a field into an
\* insertion-ordered map, the groups in first-seen order of their key, the
\* rows of a group in input order.
RECURSIVE d3group(_, _)
d3group(rows, field) ==
  IF rows = <<>> THEN <<>>
  ELSE LET groups == d3group(Front(rows), field)
           value == Last(rows)
           i == IndexOfKey(groups, value[field])
       IN IF i # 0
          THEN [groups EXCEPT ![i].value = Append(@, value)]
          ELSE Append(groups, [key |-> value[field], value |-> <<value>>])

\* A rollup that gives every age key a cell for each of Low, Medium and
\* High, reduced from no row when the data has none (mutation).
d3rollupDense(data) ==
  LET outer == d3group(data, "Age")
      Risks == <<"Low", "Medium", "High">>
      Inner(rows) ==
        LET g == d3group(rows, "RiskRating")
            missing == SelectSeq(Risks, LAMBDA risk : ~MapHas(g, risk))
        IN [j \in 1..Len(g) |->
              [key |-> g[j].key, value |-> BarReduce(g[j].value)]]
           \o [j \in 1..Len(missing) |->
                 [key |-> missing[j], value |-> BarReduce(<<>>)]]
  IN [i \in 1..Len(outer) |->
        [key |-> outer[i].key, value |-> Inner(outer[i].value)]]

\* d3.rollup(data, reduce, d => d.Age, d => d.RiskRating).
d3rollup(data) ==
  LET outer == d3group(data, "Age")
      Inner(rows) ==
        LET g == d3group(rows, "RiskRating")
        IN [j \in 1..Len(g) |->
              [key |-> g[j].key, value |-> BarReduce(g[j].value)]]
  IN [i \in 1..Len(outer) |->
        [key |-> outer[i].key, value |-> Inner(outer[i].value)]]

riskCategories == <<"Low", "Medium", "High">>
ageCategories == <<"18-27", "28-37", "38-47", "48-57", "58-69", "Unknown">>

\* totalIncome / count as a fraction; the default of a missing cell is 0.
Quotient(groupData) == [num |-> groupData.totalIncome.v, den |-> groupData.count]
ZeroValue == [num |-> 0, den |-> 1]

\* stackedData: one row per age key, with the value of each risk category.
BarStackedData(aggregatedData) ==
  [i \in 1..Len(aggregatedData) |->
     LET riskData == aggregatedData[i].value
         Value(risk) == IF MapHas(riskData, risk)
                        THEN Quotient(MapGet(riskData, risk))
                        ELSE ZeroValue
     IN [Age |-> aggregatedData[i].key,
         Low |-> Value("Low"), Medium |-> Value("Medium"),
         High |-> Value("High")]]

\* ageCategories.filter(age => aggregatedData.has(age))
ageCategoriesInData(aggregatedData) ==
  SelectSeq(ageCategories, LAMBDA age : MapHas(aggregatedData, age))

(***************************************************************************)
(* Sankey diagrams (SankeyPlot, ParallelCoordinatesPlot): loader and       *)
(* flow-graph builder.                                                     *)
(***************************************************************************)
\* Truthiness of a CSV field, and String.prototype.trim on the fields of
\* the model (the only field with white space at its ends is all blanks).
Truthy(s) == s # Undefined /\ s # ""
Trim(s) == IF s = "  " THEN "" ELSE s

\* The income of a row: NaN unless the field is set and not blank.
SankeyIncome(d) ==
  IF Truthy(d.Income) /\ Trim(d.Income) # "" THEN ToNumber(d.Income) ELSE NaN

\* The rows the row function does not return null for.
SankeyRowKept(d) ==
  /\ Truthy(d.EducationLevel)
  /\ Truthy(d.PaymentHistory)
  /\ ~isNaN(SankeyIncome(d))
  /\ Truthy(d.RiskRating)

SankeyRow(variant, d) ==
  [EducationLevel |-> d.EducationLevel,
   PaymentHistory |-> d.PaymentHistory,
   Income |-> IF variant = "pcp" THEN assignIncomeToRangeHw2(SankeyIncome(d))
              ELSE assignIncomeToRange(SankeyIncome(d)),
   RiskRating |-> d.RiskRating]

RECURSIVE SankeyLoader(_, _)
SankeyLoader(variant, csv) ==
  IF csv = <<>> THEN <<>>
  ELSE LET validData == SankeyLoader(variant, Front(csv))
       IN IF SankeyRowKept(Last(csv))
          THEN Append(validData, SankeyRow(variant, Last(csv)))
          ELSE validData

dimensions == <<"EducationLevel", "PaymentHistory", "Income", "RiskRating">>

\* data / data.filter(d => d.RiskRating === filter)
FilteredData(data, filter) ==
  IF filter = "All" THEN data
  ELSE SelectSeq(data, LAMBDA d : d.RiskRating = filter)

\* Set.add on an insertion-ordered set.
SetAdd(set, x) ==
  IF \E i \in 1..Len(set) : set[i] = x THEN set ELSE Append(set, x)

\* The keys of the nodes of the n-th adjacent pair of dimensions of a row.
SourceNode(d, n) == dimensions[n] \o "_" \o d[dimensions[n]]
TargetNode(d, n) == dimensions[n + 1] \o "_" \o d[dimensions[n + 1]]

\* The link of a pair: ParallelCoordinatesPlot stores no riskRating.
NewLink(variant, d, n) ==
  IF variant = "pcp"
  THEN [source |-> SourceNode(d, n), target |-> TargetNode(d, n), value |-> 1]
  ELSE [source |-> SourceNode(d, n), target |-> TargetNode(d, n), value |-> 1,
        riskRating |-> d.RiskRating]

\* A repeated pair leaves the weight of its link as it is (mutation).
AddLinkNoIncrement(variant, acc, d, n) ==
  LET linkKey == SourceNode(d, n) \o "->" \o TargetNode(d, n)
  IN [nodesSet |-> SetAdd(SetAdd(acc.nodesSet, SourceNode(d, n)),
                          TargetNode(d, n)),
      linksMap |->
        IF MapHas(acc.linksMap, linkKey) THEN acc.linksMap
        ELSE Append(acc.linksMap,
                    [key |-> linkKey, value |-> NewLink(variant, d, n)])]

\* A repeated pair adds a second link (mutation).
AddLinkDuplicate(variant, acc, d, n) ==
  LET linkKey == SourceNode(d, n) \o "->" \o TargetNode(d, n)
  IN [nodesSet |-> SetAdd(SetAdd(acc.nodesSet, SourceNode(d, n)),
                          TargetNode(d, n)),
      linksMap |-> Append(acc.linksMap,
                          [key |-> linkKey, value |-> NewLink(variant, d, n)])]

\* The body of the reduce callback for the n-th adjacent pair of a row: adds
\* the two nodes, then increments the link of the pair or creates it.
AddLink(variant, acc, d, n) ==
  LET linkKey == SourceNode(d, n) \o "->" \o TargetNode(d, n)
      i == IndexOfKey(acc.linksMap, linkKey)
  IN [nodesSet |-> SetAdd(SetAdd(acc.nodesSet, SourceNode(d, n)),
                          TargetNode(d, n)),
      linksMap |->
        IF i # 0
        THEN [acc.linksMap EXCEPT ![i].value.value = @ + 1]
        ELSE Append(acc.linksMap,
                    [key |-> linkKey, value |-> NewLink(variant, d, n)])]

\* dimensions.reduce over one row: the pairs (1,2), (2,3), (3,4) in order.
RECURSIVE AddRow(_, _, _, _)
AddRow(variant, acc, d, n) ==
  IF n = 0 THEN acc
  ELSE AddLink(variant, AddRow(variant, acc, d, n - 1), d, n)

\* filteredData.forEach: nodesSet and linksMap after all rows.
RECURSIVE CollectLinks(_, _)
CollectLinks(variant, rows) ==
  IF rows = <<>> THEN [nodesSet |-> <<>>, linksMap |-> <<>>]
  ELSE AddRow(variant, CollectLinks(variant, Front(rows)), Last(rows),
              Len(dimensions) - 1)

\* name.split('_'): the pieces between the underscores; the node takes the
\* first two (the second is undefined when there is no underscore).
Underscores(name) == {i \in 1..Len(name) : SubSeq(name, i, i) = "_"}
Min(S) == CHOOSE x \in S : \A y \in S : x <= y
SplitNode(name) ==
  LET us == Underscores(name)
  IN IF us = {}
     THEN [name |-> name, dimension |-> name, category |-> Undefined]
     ELSE LET first == Min(us)
              rest == us \ {first}
              stop == IF rest = {} THEN Len(name) + 1 ELSE Min(rest)
          IN [name |-> name,
              dimension |-> SubSeq(name, 1, first - 1),
              category |-> SubSeq(name, first + 1, stop - 1)]

\* An index counted from 1 (mutation).
NodeIndexFromOne(nodes, name) ==
  CHOOSE i \in 1..Len(nodes) :
    /\ nodes[i].name = name
    /\ \A j \in 1..Len(nodes) : nodes[j].name = name => j <= i

\* nodeMap.get(name): the index (from 0) of the node with that name; the
\* last one when several nodes have it.
NodeIndex(nodes, name) ==
  (CHOOSE i \in 1..Len(nodes) :
     /\ nodes[i].name = name
     /\ \A j \in 1..Len(nodes) : nodes[j].name = name => j <= i) - 1

\* A builder that hands the layout a placeholder node when there is no row
\* (mutation).
BuildGraphPlaceholder(variant, rows) ==
  LET collected == CollectLinks(variant, rows)
      names == IF collected.nodesSet = <<>> THEN <<"None_None">>
               ELSE collected.nodesSet
      nodes == [i \in 1..Len(names) |-> SplitNode(names[i])]
      Indexed(link) ==
        [link EXCEPT !.source = NodeIndex(nodes, link.source),
                     !.target = NodeIndex(nodes, link.target)]
  IN [nodes |-> nodes,
      links |-> [i \in 1..Len(collected.linksMap) |->
                   Indexed(collected.linksMap[i].value)]]

\* The nodes and links handed to the sankey layout.
BuildGraph(variant, rows) ==
  LET collected == CollectLinks(variant, rows)
      nodes == [i \in 1..Len(collected.nodesSet) |->
                  SplitNode(collected.nodesSet[i])]
      Indexed(link) ==
        [link EXCEPT !.source = NodeIndex(nodes, link.source),
                     !.target = NodeIndex(nodes, link.target)]
  IN [nodes |-> nodes,
      links |-> [i \in 1..Len(collected.linksMap) |->
                   Indexed(collected.linksMap[i].value)]]

(***************************************************************************)
(* Hexbin plot (HexbinPlot): loader, age groups and binning.               *)
(***************************************************************************)
ageGroups ==
  << [min |-> 18, max |-> 27, label |-> "18-27"],
     [min |-> 28, max |-> 37, label |-> "28-37"],
     [min |-> 38, max |-> 47, label |-> "38-47"],
     [min |-> 48, max |-> 57, label |-> "48-57"],
     [min |-> 58, max |-> 69, label |-> "58-69"] >>

\* The record of a row, and the rows the row function does not return null
\* for.
HexbinRow(d) ==
  [CreditScore |-> ToNumber(d.CreditScore), Income |-> ToNumber(d.Income),
   RiskRating |-> d.RiskRating,
   DebtToIncomeRatio |-> ToNumber(d.DebtToIncomeRatio),
   Age |-> ToNumber(d.Age)]
HexbinRowKept(d) ==
  LET r == HexbinRow(d)
  IN /\ ~isNaN(r.CreditScore)
     /\ ~isNaN(r.Income)
     /\ ~isNaN(r.DebtToIncomeRatio)
     /\ ~isNaN(r.Age)
     /\ JsGe(r.CreditScore, 600)
     /\ JsLe(r.CreditScore, 800)
     /\ JsGt(r.Income, 0)
     /\ Truthy(d.RiskRating)

RECURSIVE HexbinLoader(_)
HexbinLoader(csv) ==
  IF csv = <<>> THEN <<>>
  ELSE LET validData == HexbinLoader(Front(csv))
       IN IF HexbinRowKept(Last(csv))
          THEN Append(validData, HexbinRow(Last(csv)))
          ELSE validData

\* data.filter(d => d.Age >= currentAgeGroup.min && d.Age <= currentAgeGroup.max)
HexbinFilteredData(data, index) ==
  LET currentAgeGroup == ageGroups[index + 1]
  IN SelectSeq(data, LAMBDA d : JsGe(d.Age, currentAgeGroup.min)
                                 /\ JsLe(d.Age, currentAgeGroup.max))

\* The hexagon of a point.  The points of the model that differ in credit
\* score or income lie more than a hexagon apart at every size, so the
\* hexagon is identified by the two coordinates.
HexCell(d) == <<d.CreditScore.v, d.Income.v>>

\* hexbinGenerator(points): the points grouped by hexagon, no empty bin.
RECURSIVE hexbinGenerator(_)
hexbinGenerator(points) ==
  IF points = <<>> THEN <<>>
  ELSE LET bins == hexbinGenerator(Front(points))
           d == Last(points)
           i == IndexOfKey(bins, HexCell(d))
       IN IF i # 0
          THEN [bins EXCEPT ![i].value = Append(@, d)]
          ELSE Append(bins, [key |-> HexCell(d), value |-> <<d>>])

\* The sum of the ratios of a bin that are numbers.
RECURSIVE SumOfRatios(_)
SumOfRatios(bin) ==
  IF bin = <<>> THEN 0
  ELSE SumOfRatios(Front(bin)) +
       (IF isNaN(Last(bin).DebtToIncomeRatio) THEN 0
        ELSE Last(bin).DebtToIncomeRatio.v)

\* The hexagons updateChart draws for the bins: the average ratio of each
\* bin, as a fraction.
HexbinHexagons(bins) ==
  [i \in 1..Len(bins) |->
     [cell |-> bins[i].key,
      avgDebtToIncomeRatio |->
        [num |-> SumOfRatios(bins[i].value),
         den |-> Len(SelectSeq(bins[i].value,
                               LAMBDA d : ~isNaN(d.DebtToIncomeRatio)))]]]

(***************************************************************************)
(* State.                                                                  *)
(***************************************************************************)
VARIABLES
  bkAge,          \* bucketers: the age given to categorizeAge
  bkIncome,       \* bucketers: the income given to assignIncomeToRange
  bkAgeLabel,     \* result of categorizeAge ("" before the call)
  bkAgeLabelHw2,  \* result of the Homework2 categorizeAge
  bkIncomeLabel,  \* result of SankeyPlot's assignIncomeToRange
  bkIncomeLabelHw2, \* result of ParallelCoordinatesPlot's assignIncomeToRange
  barVariant,     \* bar chart: "current" (part_000) or "hw2" (Homework2)
  barCsv,         \* bar chart: the rows of the CSV file
  barLoad,        \* bar chart: state of the d3.csv promise
  barData,        \* bar chart: state `data`
  barSize,        \* bar chart: state `size`
  barPending,     \* bar chart: size held by the debounced onResize
  barTimer,       \* bar chart: ms left of the debounce delay (NoTimer: none)
  barObserver,    \* bar chart: the last report of the resize observer: its size,
                  \* the ms since, whether it came while a call was pending
  barAgg,         \* bar chart: aggregatedData of the last initChart
  barStacked,     \* bar chart: stackedData of the last initChart
  barDrawnSize,   \* bar chart: size the content of #bar-svg was drawn for
  barRenders,     \* bar chart: render passes (runs of initChart) so far
  barTooltips,    \* bar chart: tooltip elements appended to the container
  skVariant,      \* Sankey: "sankey" (SankeyPlot) or "pcp" (ParallelCoordinatesPlot)
  skCsv,          \* Sankey: the rows of the CSV file
  skLoad,         \* Sankey: state of the d3.csv promise
  skData,         \* Sankey: state `data`
  skSize,         \* Sankey: state `size`
  skPending,      \* Sankey: size held by the debounced onResize
  skTimer,        \* Sankey: ms left of the debounce delay (NoTimer: none)
  skFilter,       \* Sankey: state `filter` (always 'All' in ParallelCoordinatesPlot)
  skGraph,        \* Sankey: nodes and links given to the layout by the last initChart
  skDrawnFilter,  \* Sankey: filter the last initChart used
  skDrawnSize,    \* Sankey: size of the svg set by the last initChart
  skView,         \* Sankey: what the svg shows: "blank", "chart" or "nodata"
  hbMounted,      \* hexbin: the component is mounted
  hbMounts,       \* hexbin: number of mounts so far
  hbCsv,          \* hexbin: the rows of the CSV file
  hbLoad,         \* hexbin: state of the d3.csv promise of the current mount
  hbData,         \* hexbin: state `data`
  hbSize,         \* hexbin: state `size`
  hbPending,      \* hexbin: size held by the debounced onResize
  hbTimer,        \* hexbin: ms left of the debounce delay (NoTimer: none)
  ageGroupIndex,  \* hexbin: state `ageGroupIndex`
  chartInitializedRef, \* hexbin: chartInitializedRef.current
  hbScaleSize,    \* hexbin: size the scales, generator and svg refs were made for
  hbIntervals,    \* hexbin: ids of the intervals that are set and not cleared
  hbHexagons,     \* hexbin: hexagons of the last updateChart
  hbLabel         \* hexbin: text of the age group label

bucketVars == <<bkAge, bkIncome, bkAgeLabel, bkAgeLabelHw2, bkIncomeLabel,
                bkIncomeLabelHw2>>
barVars == <<barVariant, barCsv, barLoad, barData, barSize, barPending,
             barTimer, barObserver, barAgg, barStacked, barDrawnSize,
             barRenders, barTooltips>>
sankeyVars == <<skVariant, skCsv, skLoad, skData, skSize, skPending, skTimer,
                skFilter, skGraph, skDrawnFilter, skDrawnSize, skView>>
hexbinVars == <<hbMounted, hbMounts, hbCsv, hbLoad, hbData, hbSize, hbPending,
                hbTimer, ageGroupIndex, chartInitializedRef, hbScaleSize,
                hbIntervals, hbHexagons, hbLabel>>
vars == <<bucketVars, barVars, sankeyVars, hexbinVars>>

\* The sizes the resize observer reports; NoSize: nothing is pending.
ZeroSize == [width |-> 0, height |-> 0]
NoSize == [width |-> -1, height |-> -1]
Sizes == {ZeroSize, [width |-> 600, height |-> 400],
          [width |-> 900, height |-> 500]}

(***************************************************************************)
(* The debounced onResize: useDebounceCallback((size) => setSize(size),    *)
(* 200).  A call replaces the pending call and restarts the delay; when    *)
(* the delay has run out the pending call is made.  Time passes in the     *)
(* steps of TimeSteps; a delay that has run out is served before the next  *)
(* resize event.                                                           *)
(***************************************************************************)
DebounceDelay == 200
NoTimer == -1
TimeSteps == {100}
Max(a, b) == IF a >= b THEN a ELSE b
Least(a, b) == IF a <= b THEN a ELSE b

\* The resize observer before its first report.
NoReport == [size |-> NoSize, quiet |-> 0, repeated |-> FALSE]

\* A call that leaves a running delay as it is (mutation).
DebouncedCallKeepsDelay(pending, timer, size) ==
  [pending |-> size,
   timer |-> IF timer = NoTimer THEN DebounceDelay ELSE timer]

\* A call that keeps the size of the pending call (mutation).
DebouncedCallKeepsFirst(pending, timer, size) ==
  [pending |-> IF pending = NoSize THEN size ELSE pending,
   timer |-> DebounceDelay]

\* The debounced function is called with a size.
DebouncedCall(pending, timer, size) ==
  [pending |-> size, timer |-> DebounceDelay]

\* The delay of a pending call after dt ms.
DelayAfter(timer, dt) == Max(timer - dt, 0)

\* The resize observer reports a size (repeated: the report comes while a
\* call is pending, so it is not the first of its burst); dt ms pass without
\* a report.
Report(pending, size) ==
  [size |-> size, quiet |-> 0, repeated |-> pending # NoSize]
QuietAfter(observer, dt) ==
  [observer EXCEPT !.quiet = Least(@ + dt, DebounceDelay)]

\* The components that take no step in a specification stay in these states.
BucketIdle ==
  /\ bkAge = Num(0)
  /\ bkIncome = Num(0)
  /\ bkAgeLabel = ""
  /\ bkAgeLabelHw2 = ""
  /\ bkIncomeLabel = ""
  /\ bkIncomeLabelHw2 = ""

BarIdle ==
  /\ barVariant = "current"
  /\ barCsv = <<>>
  /\ barLoad = "pending"
  /\ barData = <<>>
  /\ barSize = ZeroSize
  /\ barPending = NoSize
  /\ barTimer = NoTimer
  /\ barObserver = NoReport
  /\ barAgg = <<>>
  /\ barStacked = <<>>
  /\ barDrawnSize = NoSize
  /\ barRenders = 0
  /\ barTooltips = 0

EmptyGraph == [nodes |-> <<>>, links |-> <<>>]

SankeyIdle ==
  /\ skVariant = "sankey"
  /\ skCsv = <<>>
  /\ skLoad = "pending"
  /\ skData = <<>>
  /\ skSize = ZeroSize
  /\ skPending = NoSize
  /\ skTimer = NoTimer
  /\ skFilter = "All"
  /\ skGraph = EmptyGraph
  /\ skDrawnFilter = "None"
  /\ skDrawnSize = NoSize
  /\ skView = "blank"

NoLabel == [label |-> "", noData |-> FALSE]

HexbinIdle ==
  /\ hbMounted = FALSE
  /\ hbMounts = 0
  /\ hbCsv = <<>>
  /\ hbLoad = "pending"
  /\ hbData = <<>>
  /\ hbSize = ZeroSize
  /\ hbPending = NoSize
  /\ hbTimer = NoTimer
  /\ ageGroupIndex = 0
  /\ chartInitializedRef = FALSE
  /\ hbScaleSize = NoSize
  /\ hbIntervals = {}
  /\ hbHexagons = <<>>
  /\ hbLabel = NoLabel

(***************************************************************************)
(* SpecBucket: the bucketers applied to inputs drawn from bounded sets.    *)
(***************************************************************************)
AgeInputs == {Num(a) : a \in MinAge..MaxAge}
IncomeBoundaries == {0, 20000, 50000, 100000, 200000}
IncomeInputs ==
  {Num(b + d) : b \in IncomeBoundaries, d \in (0 - IncomeDelta)..IncomeDelta}

BucketInit ==
  /\ bkAge \in AgeInputs
  /\ bkIncome \in IncomeInputs
  /\ bkAgeLabel = ""
  /\ bkAgeLabelHw2 = ""
  /\ bkIncomeLabel = ""
  /\ bkIncomeLabelHw2 = ""
  /\ BarIdle
  /\ SankeyIdle
  /\ HexbinIdle

BkCategorizeAge ==
  /\ bkAgeLabel = ""
  /\ bkAgeLabel' = categorizeAge(bkAge)
  /\ bkAgeLabelHw2' = categorizeAgeHw2(bkAge)
  /\ UNCHANGED <<bkAge, bkIncome, bkIncomeLabel, bkIncomeLabelHw2>>
  /\ UNCHANGED <<barVars, sankeyVars, hexbinVars>>

BkAssignIncome ==
  /\ bkIncomeLabel = ""
  /\ bkIncomeLabel' = assignIncomeToRange(bkIncome)
  /\ bkIncomeLabelHw2' = assignIncomeToRangeHw2(bkIncome)
  /\ UNCHANGED <<bkAge, bkIncome, bkAgeLabel, bkAgeLabelHw2>>
  /\ UNCHANGED <<barVars, sankeyVars, hexbinVars>>

BucketNext == BkCategorizeAge \/ BkAssignIncome

SpecBucket == BucketInit /\ [][BucketNext]_vars

(***************************************************************************)
(* SpecBar: the bar chart over every CSV file of at most MaxRows rows.     *)
(***************************************************************************)
\* The rows a CSV file is made of: two well-formed rows of the same cell,
\* a row with an unparseable income and a row with an unparseable age and
\* no risk rating.
BarCsvRows ==
  { [Age |-> "30", Income |-> "100", Risk |-> "Low"],
    [Age |-> "30", Income |-> "300", Risk |-> "Low"],
    [Age |-> "30", Income |-> "abc", Risk |-> "Low"],
    [Age |-> "abc", Income |-> "100", Risk |-> Undefined] }

CsvFiles(rows) == UNION {[1..n -> rows] : n \in 0..MaxRows}

BarInit ==
  /\ barVariant \in {"current", "hw2"}
  /\ barCsv \in CsvFiles(BarCsvRows)
  /\ barLoad = "pending"
  /\ barData = <<>>
  /\ barSize = ZeroSize
  /\ barPending = NoSize
  /\ barTimer = NoTimer
  /\ barObserver = NoReport
  /\ barAgg = <<>>
  /\ barStacked = <<>>
  /\ barDrawnSize = NoSize
  /\ barRenders = 0
  /\ barTooltips = 0
  /\ BucketIdle
  /\ SankeyIdle
  /\ HexbinIdle

\* d3.select(barRef.current).append('div'): one more tooltip element in the
\* container; the Homework2 bar chart has no tooltip.
AppendTooltip(variant, tooltips) ==
  IF variant = "hw2" THEN tooltips ELSE tooltips + 1

\* The guard of the render effect on [data, size].
BarRenders(data, size) ==
  ~(Len(data) = 0 \/ size.width = 0 \/ size.height = 0)

\* The render effect: clears #bar-svg and runs initChart, which (in the
\* current bar chart, not in the Homework2 one) appends a tooltip element to
\* the container, then aggregates and draws.
BarRenderEffect(data, size) ==
  IF BarRenders(data, size)
  THEN /\ barRenders < MaxRenders
       /\ barRenders' = barRenders + 1
       /\ barTooltips' = AppendTooltip(barVariant, barTooltips)
       /\ barAgg' = d3rollup(data)
       /\ barStacked' = BarStackedData(d3rollup(data))
       /\ barDrawnSize' = size
  ELSE UNCHANGED <<barAgg, barStacked, barDrawnSize, barRenders, barTooltips>>

\* The d3.csv promise resolves: setData(loadedData), then the effect.
BarLoadResolved ==
  /\ barLoad = "pending"
  /\ barLoad' = "done"
  /\ barData' = BarLoader(barVariant, barCsv)
  /\ BarRenderEffect(barData', barSize)
  /\ UNCHANGED <<barVariant, barCsv, barSize, barPending, barTimer,
                 barObserver>>
  /\ UNCHANGED <<bucketVars, sankeyVars, hexbinVars>>

\* The d3.csv promise rejects (the fetch or the parse fails).  The loader
\* has chained then(onFulfilled) only: no callback of the component runs and
\* the rejection of the chained promise is left unhandled.
BarLoadRejected ==
  /\ barLoad = "pending"
  /\ barLoad' = "unhandled"
  /\ UNCHANGED <<barVariant, barCsv, barData, barSize, barPending, barTimer,
                 barObserver, barAgg, barStacked, barDrawnSize, barRenders,
                 barTooltips>>
  /\ UNCHANGED <<bucketVars, sankeyVars, hexbinVars>>

\* The resize observer calls the debounced onResize: the call replaces the
\* pending one and restarts the 200 ms delay.
BarOnResize(size) ==
  /\ barTimer # 0
  /\ LET call == DebouncedCall(barPending, barTimer, size)
     IN barPending' = call.pending /\ barTimer' = call.timer
  /\ barObserver' = Report(barPending, size)
  /\ UNCHANGED <<barVariant, barCsv, barLoad, barData, barSize, barAgg,
                 barStacked, barDrawnSize, barRenders, barTooltips>>
  /\ UNCHANGED <<bucketVars, sankeyVars, hexbinVars>>

\* The delay elapses: setSize(size) with the pending size, then the effect.
BarDebounceFire ==
  /\ barTimer = 0
  /\ barSize' = barPending
  /\ barPending' = NoSize
  /\ barTimer' = NoTimer
  /\ barObserver' = [barObserver EXCEPT !.quiet = 0]
  /\ BarRenderEffect(barData, barSize')
  /\ UNCHANGED <<barVariant, barCsv, barLoad, barData>>
  /\ UNCHANGED <<bucketVars, sankeyVars, hexbinVars>>

\* Time passes while the delay of a pending call runs.
BarTimePasses(dt) ==
  /\ barTimer > 0
  /\ barTimer' = DelayAfter(barTimer, dt)
  /\ barObserver' = QuietAfter(barObserver, dt)
  /\ UNCHANGED <<barVariant, barCsv, barLoad, barData, barSize, barPending,
                 barAgg, barStacked, barDrawnSize, barRenders, barTooltips>>
  /\ UNCHANGED <<bucketVars, sankeyVars, hexbinVars>>

BarNext ==
  \/ BarLoadResolved
  \/ BarLoadRejected
  \/ \E size \in Sizes : BarOnResize(size)
  \/ \E dt \in TimeSteps : BarTimePasses(dt)
  \/ BarDebounceFire

SpecBar == BarInit /\ [][BarNext]_vars

(***************************************************************************)
(* SpecSankey: the Sankey diagrams over every CSV file of at most MaxRows  *)
(* rows.                                                                   *)
(***************************************************************************)
\* The rows a CSV file is made of: rows that share adjacent pairs, a row on
\* an income cutoff, and a row the loader rejects (a blank income).
SankeyCsvRows ==
  { [EducationLevel |-> "PhD", PaymentHistory |-> "Good",
     Income |-> "60000", RiskRating |-> "Low"],
    [EducationLevel |-> "PhD", PaymentHistory |-> "Good",
     Income |-> "60000", RiskRating |-> "High"],
    [EducationLevel |-> "High School", PaymentHistory |-> "Poor",
     Income |-> "15000", RiskRating |-> "High"],
    [EducationLevel |-> "High School", PaymentHistory |-> "Good",
     Income |-> "50000", RiskRating |-> "Medium"],
    [EducationLevel |-> "PhD", PaymentHistory |-> "Good",
     Income |-> "  ", RiskRating |-> "Low"] }

\* The options of the filter control.
Filters == {"All", "Low", "Medium", "High"}

SankeyInit ==
  /\ skVariant \in {"sankey", "pcp"}
  /\ skCsv \in CsvFiles(SankeyCsvRows)
  /\ skLoad = "pending"
  /\ skData = <<>>
  /\ skSize = ZeroSize
  /\ skPending = NoSize
  /\ skTimer = NoTimer
  /\ skFilter = "All"
  /\ skGraph = EmptyGraph
  /\ skDrawnFilter = "None"
  /\ skDrawnSize = NoSize
  /\ skView = "blank"
  /\ BucketIdle
  /\ BarIdle
  /\ HexbinIdle

\* The guard of the render effect without the test of the size (mutation).
SankeyRendersAnySize(data, size) == ~(Len(data) = 0)

\* The guard of the render effect on [data, size, filter].
SankeyRenders(data, size) ==
  ~(Len(data) = 0 \/ size.width = 0 \/ size.height = 0)

\* A render effect whose initChart adds the nodes and links of the pass to
\* those of the passes before (mutation).
SankeyRenderEffectCarriesOver(data, size, filter) ==
  IF SankeyRenders(data, size)
  THEN LET graph == BuildGraph(skVariant, FilteredData(data, filter))
       IN /\ skGraph' = [nodes |-> skGraph.nodes \o graph.nodes,
                         links |-> skGraph.links \o graph.links]
          /\ skDrawnFilter' = filter
          /\ skDrawnSize' = size
          /\ skView' = "chart"
  ELSE UNCHANGED <<skGraph, skDrawnFilter, skDrawnSize, skView>>

\* The render effect: clears the svg and runs initChart, which builds the
\* graph of the rows matching the filter, hands it to the sankey layout and
\* draws links, nodes, axis labels and title.
SankeyRenderEffect(data, size, filter) ==
  IF SankeyRenders(data, size)
  THEN /\ skGraph' = BuildGraph(skVariant, FilteredData(data, filter))
       /\ skDrawnFilter' = filter
       /\ skDrawnSize' = size
       /\ skView' = "chart"
  ELSE UNCHANGED <<skGraph, skDrawnFilter, skDrawnSize, skView>>

\* The d3.csv promise resolves: setData(validData), then the effect.
SankeyLoadResolved ==
  /\ skLoad = "pending"
  /\ skLoad' = "done"
  /\ skData' = SankeyLoader(skVariant, skCsv)
  /\ SankeyRenderEffect(skData', skSize, skFilter)
  /\ UNCHANGED <<skVariant, skCsv, skSize, skPending, skTimer, skFilter>>
  /\ UNCHANGED <<bucketVars, barVars, hexbinVars>>

\* The d3.csv promise rejects: then(onFulfilled) is the only callback
\* chained, so nothing runs and the rejection is left unhandled.
SankeyLoadRejected ==
  /\ skLoad = "pending"
  /\ skLoad' = "unhandled"
  /\ UNCHANGED <<skVariant, skCsv, skData, skSize, skPending, skTimer, skFilter,
                 skGraph, skDrawnFilter, skDrawnSize, skView>>
  /\ UNCHANGED <<bucketVars, barVars, hexbinVars>>

\* The resize observer calls the debounced onResize.
SankeyOnResize(size) ==
  /\ skTimer # 0
  /\ LET call == DebouncedCall(skPending, skTimer, size)
     IN skPending' = call.pending /\ skTimer' = call.timer
  /\ UNCHANGED <<skVariant, skCsv, skLoad, skData, skSize, skFilter, skGraph,
                 skDrawnFilter, skDrawnSize, skView>>
  /\ UNCHANGED <<bucketVars, barVars, hexbinVars>>

\* The delay elapses: setSize(size) with the pending size, then the effect.
SankeyDebounceFire ==
  /\ skTimer = 0
  /\ skSize' = skPending
  /\ skPending' = NoSize
  /\ skTimer' = NoTimer
  /\ SankeyRenderEffect(skData, skSize', skFilter)
  /\ UNCHANGED <<skVariant, skCsv, skLoad, skData, skFilter>>
  /\ UNCHANGED <<bucketVars, barVars, hexbinVars>>

\* The filter control of SankeyPlot changes: setFilter, then the effect.
SankeySetFilter(filter) ==
  /\ skVariant = "sankey"
  /\ filter # skFilter
  /\ skFilter' = filter
  /\ SankeyRenderEffect(skData, skSize, filter)
  /\ UNCHANGED <<skVariant, skCsv, skLoad, skData, skSize, skPending, skTimer>>
  /\ UNCHANGED <<bucketVars, barVars, hexbinVars>>

\* Time passes while the delay of a pending call runs.
SankeyTimePasses(dt) ==
  /\ skTimer > 0
  /\ skTimer' = DelayAfter(skTimer, dt)
  /\ UNCHANGED <<skVariant, skCsv, skLoad, skData, skSize, skPending, skFilter,
                 skGraph, skDrawnFilter, skDrawnSize, skView>>
  /\ UNCHANGED <<bucketVars, barVars, hexbinVars>>

SankeyNext ==
  \/ SankeyLoadResolved
  \/ SankeyLoadRejected
  \/ \E size \in Sizes : SankeyOnResize(size)
  \/ \E dt \in TimeSteps : SankeyTimePasses(dt)
  \/ SankeyDebounceFire
  \/ \E filter \in Filters : SankeySetFilter(filter)

SpecSankey == SankeyInit /\ [][SankeyNext]_vars

(***************************************************************************)
(* SpecHexbin: the hexbin plot, mounted at most MaxMounts times, over      *)
(* every CSV file of at most MaxRows rows.                                 *)
(***************************************************************************)
\* The rows a CSV file is made of: two rows of one hexagon, a row of another
\* age group, a row with empty Age and Debt-to-Income Ratio fields (kept,
\* as 0) and a row the loader rejects (credit score out of range).
HexbinCsvRows ==
  { [CreditScore |-> "700", Income |-> "60000", RiskRating |-> "Low",
     DebtToIncomeRatio |-> "20", Age |-> "30"],
    [CreditScore |-> "700", Income |-> "60000", RiskRating |-> "High",
     DebtToIncomeRatio |-> "40", Age |-> "30"],
    [CreditScore |-> "650", Income |-> "15000", RiskRating |-> "Low",
     DebtToIncomeRatio |-> "20", Age |-> "40"],
    [CreditScore |-> "650", Income |-> "60000", RiskRating |-> "Low",
     DebtToIncomeRatio |-> "", Age |-> ""],
    [CreditScore |-> "900", Income |-> "15000", RiskRating |-> "Low",
     DebtToIncomeRatio |-> "20", Age |-> "30"] }

\* The state of a component that has just been mounted: the loader has
\* started, the interval with the given id is set, nothing is drawn.
HexbinMountedState(id) ==
  /\ hbMounted' = TRUE
  /\ hbMounts' = id
  /\ hbLoad' = "pending"
  /\ hbData' = <<>>
  /\ hbSize' = ZeroSize
  /\ hbPending' = NoSize
  /\ hbTimer' = NoTimer
  /\ ageGroupIndex' = 0
  /\ chartInitializedRef' = FALSE
  /\ hbScaleSize' = NoSize
  /\ hbHexagons' = <<>>
  /\ hbLabel' = NoLabel

HexbinInit ==
  /\ hbCsv \in CsvFiles(HexbinCsvRows)
  /\ hbMounted = TRUE
  /\ hbMounts = 1
  /\ hbLoad = "pending"
  /\ hbData = <<>>
  /\ hbSize = ZeroSize
  /\ hbPending = NoSize
  /\ hbTimer = NoTimer
  /\ ageGroupIndex = 0
  /\ chartInitializedRef = FALSE
  /\ hbScaleSize = NoSize
  /\ hbIntervals = {1}
  /\ hbHexagons = <<>>
  /\ hbLabel = NoLabel
  /\ BucketIdle
  /\ BarIdle
  /\ SankeyIdle

\* updateChart: bins the rows of the current age group; without a bin it
\* removes the hexagons and labels the group '(No data)', otherwise it
\* averages each bin and draws the hexagons.
updateChart(data, index) ==
  LET bins == hexbinGenerator(HexbinFilteredData(data, index))
  IN IF Len(bins) = 0
     THEN /\ hbHexagons' = <<>>
          /\ hbLabel' = [label |-> ageGroups[index + 1].label, noData |-> TRUE]
     ELSE /\ hbHexagons' = HexbinHexagons(bins)
          /\ hbLabel' = [label |-> ageGroups[index + 1].label, noData |-> FALSE]

\* The effect with an initChart that does not test chartInitializedRef
\* (mutation).
HexbinRenderEffectEveryTime(data, size) ==
  IF Len(data) = 0 \/ size.width = 0 \/ size.height = 0
  THEN UNCHANGED <<chartInitializedRef, hbScaleSize, hbHexagons, hbLabel>>
  ELSE /\ hbScaleSize' = size
       /\ chartInitializedRef' = TRUE
       /\ updateChart(data, ageGroupIndex)

\* The effect on [data, size]: initChart, which returns at once when the
\* chart is initialized and otherwise stores the scales made for the size,
\* sets the flag and runs updateChart.
HexbinRenderEffect(data, size) ==
  IF Len(data) = 0 \/ size.width = 0 \/ size.height = 0 \/ chartInitializedRef
  THEN UNCHANGED <<chartInitializedRef, hbScaleSize, hbHexagons, hbLabel>>
  ELSE /\ hbScaleSize' = size
       /\ chartInitializedRef' = TRUE
       /\ updateChart(data, ageGroupIndex)

\* The component is mounted again (a new instance): the effects with no
\* dependencies start the loader and set a new interval.
HexbinMount ==
  /\ ~hbMounted
  /\ hbMounts < MaxMounts
  /\ HexbinMountedState(hbMounts + 1)
  /\ hbIntervals' = hbIntervals \cup {hbMounts + 1}
  /\ UNCHANGED hbCsv
  /\ UNCHANGED <<bucketVars, barVars, sankeyVars>>

\* The cleanup of the interval effect without the clearInterval (mutation).
HexbinCleanupForgets(intervals, id) == intervals

\* The cleanup of the interval effect: clearInterval(interval).
HexbinCleanup(intervals, id) == intervals \ {id}

\* The component is unmounted: the interval effect is cleaned up and the
\* debounced onResize is cancelled.
HexbinUnmount ==
  /\ hbMounted
  /\ hbMounted' = FALSE
  /\ hbIntervals' = HexbinCleanup(hbIntervals, hbMounts)
  /\ hbPending' = NoSize
  /\ hbTimer' = NoTimer
  /\ UNCHANGED <<hbMounts, hbCsv, hbLoad, hbData, hbSize, ageGroupIndex,
                 chartInitializedRef, hbScaleSize, hbHexagons, hbLabel>>
  /\ UNCHANGED <<bucketVars, barVars, sankeyVars>>

\* The d3.csv promise resolves: setData(validData), then the effect on
\* [data, size].  The promise is not cancelled by an unmount; its setData
\* then reaches no component.
HexbinLoadResolved ==
  /\ hbLoad = "pending"
  /\ hbLoad' = "done"
  /\ IF hbMounted
     THEN /\ hbData' = HexbinLoader(hbCsv)
          /\ HexbinRenderEffect(hbData', hbSize)
     ELSE UNCHANGED <<hbData, chartInitializedRef, hbScaleSize, hbHexagons,
                      hbLabel>>
  /\ UNCHANGED <<hbMounted, hbMounts, hbCsv, hbSize, hbPending, hbTimer,
                 ageGroupIndex, hbIntervals>>
  /\ UNCHANGED <<bucketVars, barVars, sankeyVars>>

\* The d3.csv promise rejects: then(onFulfilled) is the only callback
\* chained, so nothing runs and the rejection is left unhandled.
HexbinLoadRejected ==
  /\ hbLoad = "pending"
  /\ hbLoad' = "unhandled"
  /\ UNCHANGED <<hbMounted, hbMounts, hbCsv, hbData, hbSize, hbPending, hbTimer,
                 ageGroupIndex, chartInitializedRef, hbScaleSize, hbIntervals,
                 hbHexagons, hbLabel>>
  /\ UNCHANGED <<bucketVars, barVars, sankeyVars>>

\* The resize observer of the mounted component calls the debounced onResize.
HexbinOnResize(size) ==
  /\ hbMounted
  /\ hbTimer # 0
  /\ LET call == DebouncedCall(hbPending, hbTimer, size)
     IN hbPending' = call.pending /\ hbTimer' = call.timer
  /\ UNCHANGED <<hbMounted, hbMounts, hbCsv, hbLoad, hbData, hbSize,
                 ageGroupIndex, chartInitializedRef, hbScaleSize, hbIntervals,
                 hbHexagons, hbLabel>>
  /\ UNCHANGED <<bucketVars, barVars, sankeyVars>>

\* The delay elapses: setSize(size), then the effect on [data, size].
HexbinDebounceFire ==
  /\ hbTimer = 0
  /\ hbSize' = hbPending
  /\ hbPending' = NoSize
  /\ hbTimer' = NoTimer
  /\ HexbinRenderEffect(hbData, hbSize')
  /\ UNCHANGED <<hbMounted, hbMounts, hbCsv, hbLoad, hbData, ageGroupIndex,
                 hbIntervals>>
  /\ UNCHANGED <<bucketVars, barVars, sankeyVars>>

\* A tick whose updateChart reads the index of the render before (mutation).
HexbinTickStaleIndex(id) ==
  /\ id \in hbIntervals
  /\ IF hbMounted /\ id = hbMounts
     THEN /\ ageGroupIndex' = (ageGroupIndex + 1) % Len(ageGroups)
          /\ IF chartInitializedRef
             THEN updateChart(hbData, ageGroupIndex)
             ELSE UNCHANGED <<hbHexagons, hbLabel>>
     ELSE UNCHANGED <<ageGroupIndex, hbHexagons, hbLabel>>
  /\ UNCHANGED <<hbMounted, hbMounts, hbCsv, hbLoad, hbData, hbSize, hbPending,
                 hbTimer, chartInitializedRef, hbScaleSize, hbIntervals>>
  /\ UNCHANGED <<bucketVars, barVars, sankeyVars>>

\* An interval that is set fires: setAgeGroupIndex(prev => (prev + 1) % 5),
\* then the effect on [ageGroupIndex], which runs updateChart once the chart
\* is initialized.  The update of an interval whose component is gone
\* reaches no component.
HexbinTick(id) ==
  /\ id \in hbIntervals
  /\ IF hbMounted /\ id = hbMounts
     THEN /\ ageGroupIndex' = (ageGroupIndex + 1) % Len(ageGroups)
          /\ IF chartInitializedRef
             THEN updateChart(hbData, ageGroupIndex')
             ELSE UNCHANGED <<hbHexagons, hbLabel>>
     ELSE UNCHANGED <<ageGroupIndex, hbHexagons, hbLabel>>
  /\ UNCHANGED <<hbMounted, hbMounts, hbCsv, hbLoad, hbData, hbSize, hbPending,
                 hbTimer, chartInitializedRef, hbScaleSize, hbIntervals>>
  /\ UNCHANGED <<bucketVars, barVars, sankeyVars>>

\* Time passes while the delay of a pending call runs.
HexbinTimePasses(dt) ==
  /\ hbTimer > 0
  /\ hbTimer' = DelayAfter(hbTimer, dt)
  /\ UNCHANGED <<hbMounted, hbMounts, hbCsv, hbLoad, hbData, hbSize, hbPending,
                 ageGroupIndex, chartInitializedRef, hbScaleSize, hbIntervals,
                 hbHexagons, hbLabel>>
  /\ UNCHANGED <<bucketVars, barVars, sankeyVars>>

HexbinNext ==
  \/ HexbinMount
  \/ HexbinUnmount
  \/ HexbinLoadResolved
  \/ HexbinLoadRejected
  \/ \E size \in Sizes : HexbinOnResize(size)
  \/ \E dt \in TimeSteps : HexbinTimePasses(dt)
  \/ HexbinDebounceFire
  \/ \E id \in 1..MaxMounts : HexbinTick(id)

SpecHexbin == HexbinInit /\ [][HexbinNext]_vars

(***************************************************************************)
(* Properties of the bucketers (SpecBucket).                               *)
(***************************************************************************)
\* The intervals of a table that contain the integer a.
Containing(table, a) == {iv \in table : iv.min <= a /\ a <= iv.max}

\* The label is the label of the one interval of the table that contains a.
LabelledByContaining(table, a, label) ==
  /\ label # "Unknown"
  /\ Cardinality(Containing(table, a)) = 1
  /\ \A iv \in Containing(table, a) : iv.label = label

\* C1: for every integer age in 18..69 categorizeAge returns one label, the
\* label is not 'Unknown' and the closed interval it names contains the age
\* (so an age equal to an interval's max stays in the interval and max+1 goes
\* to the next one); the containment holds for both categorizeAge variants,
\* each with its own cutoffs.
C1_AgeBucketContainsAge ==
  (bkAgeLabel # "" /\ bkAge.v \in 18..69) =>
    /\ LabelledByContaining(ageIntervals, bkAge.v, bkAgeLabel)
    /\ LabelledByContaining(ageIntervalsHw2, bkAge.v, bkAgeLabelHw2)
    /\ (bkAge.v = 27 => bkAgeLabel = "18-27")
    /\ (bkAge.v = 28 => bkAgeLabel = "28-37")

\* An age on an interval's upper bound has been categorized.
C1_Witness ==
  /\ bkAge = Num(27)
  /\ bkAgeLabel = "18-27"
  /\ bkAgeLabelHw2 = "26-35"

\* C2 (as claimed): an income equal to an interval's upper bound receives
\* that interval's label, and only incomes matching no closed interval get
\* the fallback '> 200K'.
C2_ClosedUpperBound ==
  bkIncomeLabel # "" =>
    /\ \A iv \in incomeIntervals :
         bkIncome.v = iv.max =>
           bkIncomeLabel = iv.label /\ bkIncomeLabelHw2 = iv.label
    /\ (bkIncomeLabel = "> 200K" => bkIncome.v > 200000)

\* C2 (amended): the income intervals are closed below and open above: the
\* label is that of the interval with min <= income < max, an income equal
\* to an interval's upper bound receives the label of the next range
\* (50000 -> '50K - 100K', 100000 -> '100K - 200K', 200000 -> '> 200K'),
\* incomes below 20000 get '< 20K' and incomes of 200000 or more '> 200K'.
C2_HalfOpenIntervals ==
  bkIncomeLabel # "" =>
    /\ bkIncomeLabelHw2 = bkIncomeLabel
    /\ \A iv \in incomeIntervals :
         (iv.min <= bkIncome.v /\ bkIncome.v < iv.max) <=>
           bkIncomeLabel = iv.label
    /\ (bkIncome.v < 20000 <=> bkIncomeLabel = "< 20K")
    /\ (bkIncome.v >= 200000 <=> bkIncomeLabel = "> 200K")
    /\ (bkIncome.v = 50000 => bkIncomeLabel = "50K - 100K")
    /\ (bkIncome.v = 100000 => bkIncomeLabel = "100K - 200K")

\* An income on an interval's upper bound has been assigned to a range.
C2_Witness ==
  /\ bkIncome = Num(50000)
  /\ bkIncomeLabel = "50K - 100K"
  /\ bkIncomeLabelHw2 = "50K - 100K"

(***************************************************************************)
(* Properties of the bar chart (SpecBar).                                  *)
(***************************************************************************)
\* initChart has aggregated the loaded rows.
BarDrawn == barRenders > 0

\* The rows of a cell, as indices into the data.
CellRows(data, age, risk) ==
  {k \in 1..Len(data) : data[k].Age = age /\ data[k].RiskRating = risk}

\* The total income of a set of rows: the sum of their Income numbers.
RECURSIVE TotalIncome(_, _)
TotalIncome(data, rows) ==
  IF rows = {} THEN Num(0)
  ELSE LET k == CHOOSE k \in rows : TRUE
       IN JsAdd(data[k].Income, TotalIncome(data, rows \ {k}))

\* The entries of an aggregated mapping as <<i, j>> positions, and the
\* cells <<age, risk, {sum, count}>> they hold.
CellPositions(agg) ==
  UNION {{<<i, j>> : j \in 1..Len(agg[i].value)} : i \in 1..Len(agg)}
Cells(agg) ==
  {<<agg[p[1]].key, agg[p[1]].value[p[2]].key, agg[p[1]].value[p[2]].value>> :
     p \in CellPositions(agg)}

\* Every (age, risk) pair is the key of at most one entry.
CellKeysUnique(agg) ==
  \A p, q \in CellPositions(agg) :
    (agg[p[1]].key = agg[q[1]].key
       /\ agg[p[1]].value[p[2]].key = agg[q[1]].value[q[2]].key) => p = q

\* C3: the two-level aggregation yields for each cell a count equal to the
\* number of rows with that age bucket and risk rating and a sum equal to
\* the total income of exactly those rows; every pair that has rows is a
\* cell; the displayed value of a Low/Medium/High cell is sum/count.
C3_CellSumCountMean ==
  BarDrawn =>
    /\ CellKeysUnique(barAgg)
    /\ \A k \in 1..Len(barData) :
         \E c \in Cells(barAgg) :
           c[1] = barData[k].Age /\ c[2] = barData[k].RiskRating
    /\ \A c \in Cells(barAgg) :
         /\ c[3].count = Cardinality(CellRows(barData, c[1], c[2]))
         /\ c[3].totalIncome = TotalIncome(barData, CellRows(barData, c[1], c[2]))
    /\ Len(barStacked) = Len(barAgg)
    /\ \A i \in 1..Len(barStacked) :
         /\ barStacked[i].Age = barAgg[i].key
         /\ \A n \in 1..Len(riskCategories) :
              LET risk == riskCategories[n]
                  rows == CellRows(barData, barStacked[i].Age, risk)
              IN rows # {} =>
                   /\ Num(barStacked[i][risk].num) = TotalIncome(barData, rows)
                   /\ barStacked[i][risk].den = Cardinality(rows)

\* The rows of a sequence in the order given by a permutation of its indices.
Permuted(data, p) == [i \in 1..Len(data) |-> data[p[i]]]

\* C4: the aggregation is invariant under row permutation: every reordering
\* of the rows gives the same set of (age bucket, risk rating) cells with
\* the same {sum, count} in each.
C4_PermutationInvariant ==
  BarDrawn =>
    \A p \in Permutations(1..Len(barData)) :
      LET shuffled == d3rollup(Permuted(barData, p))
      IN Cells(shuffled) = Cells(barAgg) /\ CellKeysUnique(shuffled)

\* Rows of two cells, two of them in one cell with different incomes, have
\* been aggregated.
C4_Witness ==
  /\ BarDrawn
  /\ Len(barData) = 3
  /\ Cardinality(Cells(barAgg)) = 2
  /\ \E c \in Cells(barAgg) : c[3] = [totalIncome |-> Num(400), count |-> 2]

RECURSIVE SumOfCounts(_)
SumOfCounts(cells) ==
  IF cells = {} THEN 0
  ELSE LET c == CHOOSE c \in cells : TRUE
       IN c[3].count + SumOfCounts(cells \ {c})
RECURSIVE SumOfSums(_)
SumOfSums(cells) ==
  IF cells = {} THEN Num(0)
  ELSE LET c == CHOOSE c \in cells : TRUE
       IN JsAdd(c[3].totalIncome, SumOfSums(cells \ {c}))

\* C5: the counts of all cells add up to the number of rows and the sums of
\* all cells add up to the total income of all rows.
C5_TotalsConserved ==
  BarDrawn =>
    /\ SumOfCounts(Cells(barAgg)) = Len(barData)
    /\ SumOfSums(Cells(barAgg)) = TotalIncome(barData, 1..Len(barData))

\* A field that parses as a number and is not empty; a field that is set.
IsNumericField(s) == s # Undefined /\ s # "" /\ ~isNaN(ToNumber(s))
IsSetField(s) == s # Undefined /\ s # ""
BarRowValid(d) ==
  IsNumericField(d.Age) /\ IsNumericField(d.Income) /\ IsSetField(d.Risk)

\* C8 (bar chart): the records held in the data state are those of the rows
\* whose Age and Income parse as numbers and whose Risk Rating is set; the
\* other rows are dropped by the loader.
C8_BarRecordsValidated ==
  barLoad = "done" =>
    barData = BarLoader(barVariant, SelectSeq(barCsv, BarRowValid))

(***************************************************************************)
(* Properties of the Sankey diagrams (SpecSankey).                         *)
(***************************************************************************)
\* initChart has built a graph; the rows it was built from.
SankeyDrawn == skView = "chart"
SankeyDrawnRows == FilteredData(skData, skDrawnFilter)

\* The sum of the weights of a set of links, given by their positions.
RECURSIVE Weight(_, _)
Weight(links, positions) ==
  IF positions = {} THEN 0
  ELSE LET i == CHOOSE i \in positions : TRUE
       IN links[i].value + Weight(links, positions \ {i})

\* The links that leave the node with index n (from 0).
Outgoing(links, n) == {i \in 1..Len(links) : links[i].source = n}

\* C6: for every node of a non-final dimension the weights of its outgoing
\* edges add up to the number of (filtered) rows whose value in that
\* dimension is the node's category; the weights of all edges add up to
\* rows x (number of dimensions - 1).
C6_OutgoingWeightIsRowCount ==
  SankeyDrawn =>
    /\ \A i \in 1..Len(skGraph.nodes) :
         LET node == skGraph.nodes[i]
         IN node.dimension # dimensions[Len(dimensions)] =>
              Weight(skGraph.links, Outgoing(skGraph.links, i - 1)) =
                Cardinality({k \in 1..Len(SankeyDrawnRows) :
                               SankeyDrawnRows[k][node.dimension] = node.category})
    /\ Weight(skGraph.links, 1..Len(skGraph.links)) =
         Len(SankeyDrawnRows) * (Len(dimensions) - 1)

\* A node with two outgoing edges has been built from three rows.
C6_Witness ==
  /\ SankeyDrawn
  /\ Len(SankeyDrawnRows) = 3
  /\ \E i \in 1..Len(skGraph.nodes) :
       /\ Cardinality(Outgoing(skGraph.links, i - 1)) = 2
       /\ Weight(skGraph.links, Outgoing(skGraph.links, i - 1)) = 3

\* The keys seen in the rows, and the adjacent pairs of keys a row produces.
KeysSeen(rows) ==
  {dimensions[n] \o "_" \o rows[k][dimensions[n]] :
     k \in 1..Len(rows), n \in 1..Len(dimensions)}
PairOf(d, n) == <<SourceNode(d, n), TargetNode(d, n)>>
PairsSeen(rows) ==
  {PairOf(rows[k], n) : k \in 1..Len(rows), n \in 1..(Len(dimensions) - 1)}
RowsProducing(rows, pair) ==
  {k \in 1..Len(rows) :
     \E n \in 1..(Len(dimensions) - 1) : PairOf(rows[k], n) = pair}

\* The pair of node keys a link joins.
LinkPair(graph, i) ==
  <<graph.nodes[graph.links[i].source + 1].name,
    graph.nodes[graph.links[i].target + 1].name>>

\* C7: there is exactly one node per distinct key seen and exactly one edge
\* per distinct ordered pair (source key, target key) of adjacent
\* dimensions; the weight of the edge is the number of rows producing the
\* pair and is at least 1.
C7_OneNodePerKeyOneEdgePerPair ==
  SankeyDrawn =>
    /\ {skGraph.nodes[i].name : i \in 1..Len(skGraph.nodes)} =
         KeysSeen(SankeyDrawnRows)
    /\ \A i, j \in 1..Len(skGraph.nodes) :
         skGraph.nodes[i].name = skGraph.nodes[j].name => i = j
    /\ {LinkPair(skGraph, i) : i \in 1..Len(skGraph.links)} =
         PairsSeen(SankeyDrawnRows)
    /\ \A i, j \in 1..Len(skGraph.links) :
         LinkPair(skGraph, i) = LinkPair(skGraph, j) => i = j
    /\ \A i \in 1..Len(skGraph.links) :
         /\ skGraph.links[i].value =
              Cardinality(RowsProducing(SankeyDrawnRows, LinkPair(skGraph, i)))
         /\ skGraph.links[i].value >= 1

\* A pair repeated by two rows has been built into one edge of weight 2.
C7_Witness ==
  /\ SankeyDrawn
  /\ Len(SankeyDrawnRows) = 3
  /\ \E i \in 1..Len(skGraph.links) : skGraph.links[i].value = 2
  /\ \E i \in 1..Len(skGraph.links) : skGraph.links[i].value = 1

\* C9 (SankeyPlot): whenever the risk-rating filter selects no row of a
\* loaded, non-empty dataset, the component shows an explicit 'no data'
\* state and the graph layout is not run on the empty selection.
C9_NoDataStateOnEmptySelection ==
  (/\ skLoad = "done"
   /\ SankeyRenders(skData, skSize)
   /\ FilteredData(skData, skFilter) = <<>>) =>
    /\ skView = "nodata"
    /\ ~(skDrawnFilter = skFilter /\ skGraph = EmptyGraph /\ skView = "chart")

(***************************************************************************)
(* Properties of the hexbin plot (SpecHexbin).                             *)
(***************************************************************************)
\* C10: the age-group timer is released on unmount: a mounted component has
\* exactly its own interval set, an unmounted one has none, and while the
\* component is unmounted ageGroupIndex does not advance and updateChart
\* does not run, whatever number of ticks came before the unmount.
C10_TimerReleasedOnUnmount ==
  /\ [](/\ Cardinality(hbIntervals) <= 1
        /\ (hbMounted => hbIntervals = {hbMounts})
        /\ (~hbMounted => hbIntervals = {}))
  /\ [][(~hbMounted /\ ~hbMounted') =>
          UNCHANGED <<ageGroupIndex, hbHexagons, hbLabel>>]_vars

\* The component has been unmounted after two ticks on an initialized chart.
C10_Witness ==
  /\ ~hbMounted
  /\ chartInitializedRef
  /\ ageGroupIndex = 2
  /\ hbLabel.label = "38-47"
  /\ hbIntervals = {}

(***************************************************************************)
(* Properties of the debounced resize (SpecBar).                           *)
(***************************************************************************)
\* The steps of the bar chart's resize handling: a report of the resize
\* observer, and the application of setSize.
BarResizeEvent ==
  barObserver' # barObserver /\ barObserver'.quiet = 0 /\ barPending' # NoSize
BarSetSize == barTimer # NoTimer /\ barTimer' = NoTimer

\* C11: resize is debounced with a 200 ms quiet period: while a burst lasts
\* the pending call holds the size of the last event and the delay left is
\* 200 ms less the time since that event; setSize is applied only when 200 ms
\* have passed since the last event, with that event's size, and leaves
\* nothing pending (once per burst); a resize event changes neither the size
\* state nor what is drawn, the size state changes only by that setSize, and
\* the chart is only drawn with the size state.
C11_ResizeDebounced ==
  /\ [](/\ (barPending # NoSize <=> barTimer # NoTimer)
        /\ (barPending # NoSize =>
              /\ barPending = barObserver.size
              /\ barTimer = DebounceDelay - barObserver.quiet))
  /\ [][BarSetSize =>
          /\ barObserver.quiet = DebounceDelay
          /\ barSize' = barObserver.size
          /\ barPending' = NoSize]_vars
  /\ [][BarResizeEvent =>
          UNCHANGED <<barSize, barDrawnSize, barRenders, barAgg>>]_vars
  /\ [][barSize' # barSize => BarSetSize]_vars
  /\ [][barRenders' # barRenders => barDrawnSize' = barSize']_vars
  /\ [][barTimer = 0 => (BarSetSize \/ UNCHANGED <<barObserver, barTimer>>)]_vars

\* A burst of several resize events has been followed by one setSize, and
\* the chart has been drawn once, with the last size of the burst.
C11_Witness ==
  /\ barObserver.repeated
  /\ barPending = NoSize
  /\ barObserver.size = [width |-> 900, height |-> 500]
  /\ barSize = barObserver.size
  /\ barDrawnSize = barSize
  /\ barRenders = 1

(***************************************************************************)
(* Properties of the render effect under interleaving (SpecSankey).        *)
(***************************************************************************)
\* What the last initChart of the Sankey diagram has used and built.
SankeyDrawing == <<skGraph, skDrawnFilter, skDrawnSize, skView>>

C13_NoZeroCountCell ==
  BarDrawn =>
    /\ \A c \in Cells(barAgg) :
         /\ CellRows(barData, c[1], c[2]) # {}
         /\ c[3].count >= 1
    /\ \A i \in 1..Len(barStacked) :
         \A n \in 1..Len(riskCategories) :
           LET risk == riskCategories[n]
               present == {c \in Cells(barAgg) :
                             c[1] = barStacked[i].Age /\ c[2] = risk}
           IN /\ barStacked[i][risk].den # 0
              /\ present = {} => barStacked[i][risk] = [num |-> 0, den |-> 1]
              /\ \A c \in present :
                   barStacked[i][risk] =
                     [num |-> c[3].totalIncome.v, den |-> c[3].count]

\* A grid with a present cell (two rows) and missing cells has been built.
C13_Witness ==
  /\ BarDrawn
  /\ Len(barStacked) = 2
  /\ barStacked[1].Low = [num |-> 400, den |-> 2]
  /\ barStacked[1].Medium = [num |-> 0, den |-> 1]
  /\ Cardinality(Cells(barAgg)) = 2

(***************************************************************************)
(* Properties of the recomputation of the Sankey diagram (SpecSankey).     *)
(***************************************************************************)
\* The rows a filter selects: every row for 'All', else the rows with that
\* risk rating.
RowsMatching(data, filter) ==
  {k \in 1..Len(data) : filter = "All" \/ data[k].RiskRating = filter}

\* The graph has one node per key of the selected rows and one link per
\* adjacent pair of keys, weighted by the number of selected rows with it.
GraphOfRows(graph, data, selected) ==
  LET Key(k, n) == dimensions[n] \o "_" \o data[k][dimensions[n]]
      Pairs == {<<Key(k, n), Key(k, n + 1)>> :
                  k \in selected, n \in 1..(Len(dimensions) - 1)}
      With(pair) == {<<k, n>> \in selected \X (1..(Len(dimensions) - 1)) :
                       <<Key(k, n), Key(k, n + 1)>> = pair}
  IN /\ {graph.nodes[i].name : i \in 1..Len(graph.nodes)} =
          {Key(k, n) : k \in selected, n \in 1..Len(dimensions)}
     /\ Len(graph.nodes) =
          Cardinality({Key(k, n) : k \in selected, n \in 1..Len(dimensions)})
     /\ {LinkPair(graph, i) : i \in 1..Len(graph.links)} = Pairs
     /\ Len(graph.links) = Cardinality(Pairs)
     /\ \A i \in 1..Len(graph.links) :
          graph.links[i].value = Cardinality(With(LinkPair(graph, i)))

\* C14: the recomputation of SankeyPlot is idempotent and history-free:
\* after any sequence of filter changes and resizes the graph on display
\* (its nodes, links and weights) is that of the rows matching the current
\* filter, whatever was built before; a pass with the same rows and filter
\* as the pass before gives an equal graph.
C14_RecomputationHistoryFree ==
  /\ []((skVariant = "sankey" /\ SankeyRenders(skData, skSize)) =>
          /\ SankeyDrawn
          /\ skDrawnFilter = skFilter
          /\ GraphOfRows(skGraph, skData, RowsMatching(skData, skFilter)))
  /\ []((skVariant = "sankey" /\ SankeyDrawn) =>
          GraphOfRows(skGraph, skData, RowsMatching(skData, skDrawnFilter)))
  /\ [][(/\ skVariant = "sankey"
         /\ SankeyDrawn
         /\ SankeyRenders(skData', skSize')
         /\ skData' = skData
         /\ skFilter' = skDrawnFilter) => skGraph' = skGraph]_vars

\* The graph of the rows of one risk rating is on display, for a dataset
\* that has rows of another: 7 nodes and 6 links for two rows out of three.
C14_Witness ==
  /\ skVariant = "sankey"
  /\ SankeyDrawn
  /\ skFilter = "High"
  /\ skDrawnFilter = "High"
  /\ Len(skData) = 3
  /\ Cardinality(RowsMatching(skData, skFilter)) = 2
  /\ Len(skGraph.nodes) = 7
  /\ Len(skGraph.links) = 6

(***************************************************************************)
(* Properties of a failed load (SpecBar).                                  *)
(***************************************************************************)
\* C15 (bar chart, both variants): when the CSV fetch or parse has failed,
\* the rejection has been handled (it is not left as an unhandled
\* rejection) and the dataset state the presentation reads is an explicit
\* empty/error state, not the state it has while the load is pending.
C15_FetchFailureIsExplicit ==
  barLoad \notin {"pending", "done"} =>
    /\ barLoad # "unhandled"
    /\ barData # <<>>

(***************************************************************************)
(* Properties of the builders on zero rows (SpecSankey).                   *)
(***************************************************************************)
\* C16: given zero rows the aggregation returns an empty mapping (and an
\* empty grid) and the graph builder an empty node list and an empty link
\* list; in particular the graph SankeyPlot builds for a filter that matches
\* no row has zero nodes and zero links.
C16_ZeroRowsGiveEmptyStructures ==
  /\ d3rollup(<<>>) = <<>>
  /\ BarStackedData(d3rollup(<<>>)) = <<>>
  /\ BuildGraph(skVariant, <<>>) = [nodes |-> <<>>, links |-> <<>>]
  /\ (SankeyDrawn /\ RowsMatching(skData, skDrawnFilter) = {}) =>
       /\ Len(skGraph.nodes) = 0
       /\ Len(skGraph.links) = 0

\* initChart has built the graph for a filter that matches none of the
\* three loaded rows.
C16_Witness ==
  /\ SankeyDrawn
  /\ Len(skData) = 3
  /\ skDrawnFilter = "Medium"
  /\ skFilter = "Medium"
  /\ RowsMatching(skData, skDrawnFilter) = {}
  /\ skGraph = EmptyGraph

(***************************************************************************)
(* Properties of the initialization of the hexbin plot (SpecHexbin).       *)
(***************************************************************************)
\* The step stays within one mounted component.
HexbinSameMount == hbMounts' = hbMounts

\* C17: HexbinPlot initializes its chart once per mounted component: the
\* body of initChart stores the scales, with the non-zero size of the
\* render it runs in, only while chartInitializedRef is false, and sets it;
\* chartInitializedRef never returns to false; updateChart draws nothing
\* before the scales are stored; every later resize leaves the scales (and
\* the axes and svg dimensions made with them) as the initialization made
\* them.
C17_InitializedOnce ==
  /\ [](chartInitializedRef <=> hbScaleSize # NoSize)
  /\ [](~chartInitializedRef => hbHexagons = <<>> /\ hbLabel = NoLabel)
  /\ [][(chartInitializedRef /\ HexbinSameMount) =>
          /\ chartInitializedRef'
          /\ hbScaleSize' = hbScaleSize]_vars
  /\ [][(hbScaleSize' # hbScaleSize /\ HexbinSameMount) =>
          /\ ~chartInitializedRef
          /\ chartInitializedRef'
          /\ hbScaleSize' = hbSize'
          /\ hbScaleSize' \in Sizes \ {ZeroSize}
          /\ Len(hbData') > 0]_vars
  /\ [][((hbHexagons' # hbHexagons \/ hbLabel' # hbLabel) /\ HexbinSameMount) =>
          chartInitializedRef' /\ hbScaleSize' # NoSize]_vars

\* A later resize has been applied to a mounted, initialized chart: the
\* size state is 900x500, the scales are those made for 600x400.
C17_Witness ==
  /\ hbMounted
  /\ chartInitializedRef
  /\ hbScaleSize = [width |-> 600, height |-> 400]
  /\ hbSize = [width |-> 900, height |-> 500]
  /\ hbPending = NoSize
  /\ Len(hbHexagons) > 0

(***************************************************************************)
(* Properties of the age group animation (SpecHexbin).                     *)
(***************************************************************************)
\* The rows of the data whose age lies in the age group with the index.
RowsOfAgeGroup(data, index) ==
  {k \in 1..Len(data) :
     /\ ~data[k].Age.nan
     /\ data[k].Age.v >= ageGroups[index + 1].min
     /\ data[k].Age.v <= ageGroups[index + 1].max}

\* The number of points of the hexagons drawn.
RECURSIVE PointsDrawn(_)
PointsDrawn(hexagons) ==
  IF hexagons = <<>> THEN 0
  ELSE PointsDrawn(Front(hexagons)) + Last(hexagons).avgDebtToIncomeRatio.den

\* C18: ageGroupIndex always lies in 0..4; a tick changes it from i to
\* (i + 1) mod 5, so the five age groups are visited in order and
\* cyclically; once the chart is initialized the age group filtered and
\* labelled is ageGroups[ageGroupIndex]: the label names it, it says
\* '(No data)' exactly when no row has an age in the group, and the
\* hexagons hold the rows of the group.
C18_AgeGroupIndexCycles ==
  /\ [](ageGroupIndex \in 0..4)
  /\ [][(ageGroupIndex' # ageGroupIndex /\ HexbinSameMount) =>
          ageGroupIndex' = (ageGroupIndex + 1) % 5]_vars
  /\ [](chartInitializedRef =>
          /\ hbLabel.label = ageGroups[ageGroupIndex + 1].label
          /\ hbLabel.noData <=> RowsOfAgeGroup(hbData, ageGroupIndex) = {}
          /\ PointsDrawn(hbHexagons) =
               Cardinality(RowsOfAgeGroup(hbData, ageGroupIndex)))

\* Two ticks after the initialization the third age group is on display,
\* with the one row the data has in it.
C18_Witness ==
  /\ hbMounted
  /\ chartInitializedRef
  /\ ageGroupIndex = 2
  /\ hbLabel = [label |-> "38-47", noData |-> FALSE]
  /\ Len(hbData) = 3
  /\ PointsDrawn(hbHexagons) = 1

(***************************************************************************)
(* Properties of the links handed to the layout (SpecSankey).              *)
(***************************************************************************)
\* The position of a dimension in the fixed order, 0 when it is none.
DimensionIndex(dimension) ==
  IF \E n \in 1..Len(dimensions) : dimensions[n] = dimension
  THEN CHOOSE n \in 1..Len(dimensions) : dimensions[n] = dimension
  ELSE 0

\* The first place a key is seen at when the rows are read in order and the
\* dimensions of a row in the fixed order.
FirstSeenAt(rows, key) ==
  LET Places == {<<k, n>> \in (1..Len(rows)) \X (1..Len(dimensions)) :
                   dimensions[n] \o "_" \o rows[k][dimensions[n]] = key}
  IN CHOOSE p \in Places :
       \A q \in Places : p[1] < q[1] \/ (p[1] = q[1] /\ p[2] <= q[2])
Earlier(p, q) == p[1] < q[1] \/ (p[1] = q[1] /\ p[2] < q[2])

\* C19: every link handed to the layout is well formed: source and target
\* are indices in 0..|nodes|-1; the nodes stand in first-seen order of their
\* keys, so the index of a key is its first-seen index; the two nodes of a
\* link have the keys of an adjacent pair of some row, the source in
\* dimension i and the target in dimension i+1 of the fixed order, so there
\* is no self-loop and no cycle.
C19_LinksWellFormed ==
  SankeyDrawn =>
    /\ \A i \in 1..Len(skGraph.links) :
         /\ skGraph.links[i].source \in 0..(Len(skGraph.nodes) - 1)
         /\ skGraph.links[i].target \in 0..(Len(skGraph.nodes) - 1)
    /\ \A i \in 1..Len(skGraph.nodes) :
         skGraph.nodes[i].name \in KeysSeen(SankeyDrawnRows)
    /\ \A i, j \in 1..Len(skGraph.nodes) :
         i < j => Earlier(FirstSeenAt(SankeyDrawnRows, skGraph.nodes[i].name),
                          FirstSeenAt(SankeyDrawnRows, skGraph.nodes[j].name))
    /\ \A i \in 1..Len(skGraph.links) :
         LET source == skGraph.nodes[skGraph.links[i].source + 1]
             target == skGraph.nodes[skGraph.links[i].target + 1]
         IN /\ <<source.name, target.name>> \in PairsSeen(SankeyDrawnRows)
            /\ DimensionIndex(source.dimension) \in 1..(Len(dimensions) - 1)
            /\ DimensionIndex(target.dimension) =
                 DimensionIndex(source.dimension) + 1
            /\ skGraph.links[i].source # skGraph.links[i].target

\* A graph of three rows has been built in which a link ends at the last
\* node and a node seen again by a later row keeps its index.
C19_Witness ==
  /\ SankeyDrawn
  /\ Len(SankeyDrawnRows) = 3
  /\ Len(skGraph.nodes) = 8
  /\ \E i \in 1..Len(skGraph.links) :
       skGraph.links[i].target = Len(skGraph.nodes) - 1
  /\ \E i \in 1..Len(skGraph.links) :
       skGraph.links[i].source = 0 /\ skGraph.links[i].value = 2

(***************************************************************************)
(* Properties of the elements of the bar chart container (SpecBar).        *)
(***************************************************************************)
\* C20: re-rendering the bar chart does not accumulate what it creates:
\* after any sequence of load and resize events the container holds the
\* elements of one render pass, in particular at most one tooltip element.
C20_OneTooltipElement == barTooltips <= 1

=============================================================================
